---- MODULE Spec2Model ----
(***************************************************************************)
(* Model of aiortc's JitterBuffer (src/aiortc/jitterbuffer.py): a          *)
(* fixed-size circular window of RTP packets indexed by sequence number    *)
(* modulo capacity, from which frames (runs of packets that share a        *)
(* timestamp) are extracted.                                               *)
(*                                                                         *)
(* Python's None is modelled as the empty tuple and a present value x as   *)
(* the one-element tuple <<x>>.  An exception leaving a call is recorded   *)
(* in the variable raised; the object stays usable afterwards, as in       *)
(* Python.                                                                 *)
(***************************************************************************)
EXTENDS Integers, Sequences, FiniteSets, TLC

\* ---------------------------------------------------------------- bounds
MaxCapacity == 4        \* capacities passed to the constructor: -NegCapacities..MaxCapacity
NegCapacities == 1
MaxPrefetch == 2        \* prefetch values passed to the constructor: 0..MaxPrefetch
MaxSeq == 5             \* near sequence numbers of packets: 0..MaxSeq
MaxFar == 0             \* far sequence numbers: MAX_MISORDER..MAX_MISORDER + MaxFar
NumTimestamps == 2      \* packet timestamps: 1000, 2000, ...
NumVariants == 1        \* distinct (payload, ntp_timestamp, rtp_diff) triples per packet
MaxCapacityLog == 3     \* SpecStream: capacities 2^0 .. 2^MaxCapacityLog
StreamLen == 6          \* SpecStream: length of the in-order stream 0,1,2,...
MaxWrapBack == 2        \* SpecWrap: sequence numbers 65535 - MaxWrapBack .. 65535
MaxWrapAhead == 1       \* SpecWrap: sequence numbers 0 .. MaxWrapAhead

\* ------------------------------------------------------ program constants
MAX_MISORDER == 100

\* ------------------------------------------------------------ data model
None == <<>>
Some(x) == <<x>>

\* RtpPacket, with the five fields the buffer reads.
RtpPacket(seq, ts, v) ==
    [sequence_number |-> seq, timestamp |-> ts,
     ntp_timestamp |-> 100 + 10 * seq + v, rtp_diff |-> 200 + 10 * seq + v,
     data |-> <<10 * seq + v>>]

SeqNumbers == (0..MaxSeq) \cup (MAX_MISORDER..(MAX_MISORDER + MaxFar))
Timestamps == {1000 * k : k \in 1..NumTimestamps}
Packets == {RtpPacket(s, t, v) : s \in SeqNumbers, t \in Timestamps, v \in 1..NumVariants}
CapacityInputs == (0 - NegCapacities)..MaxCapacity
PrefetchInputs == 0..MaxPrefetch

\* Mutant of JoinData: the payloads are joined in reverse order.
RECURSIVE JoinDataReversed(_)
JoinDataReversed(pkts) ==
    IF pkts = <<>> THEN <<>> ELSE JoinDataReversed(Tail(pkts)) \o Head(pkts).data

\* b"".join([x._data for x in packets])
RECURSIVE JoinData(_)
JoinData(pkts) ==
    IF pkts = <<>> THEN <<>> ELSE Head(pkts).data \o JoinData(Tail(pkts))

JitterFrame(pkts, ts, ntp, rtpd) ==
    [data |-> JoinData(pkts), packets |-> pkts, timestamp |-> ts,
     ntp_timestamp |-> ntp, rtp_diff |-> rtpd]

\* Python's a & b on unbounded two's-complement integers.
RECURSIVE BitAnd(_, _)
BitAnd(a, b) ==
    IF a = 0 \/ b = 0 THEN 0
    ELSE IF a = -1 THEN b
    ELSE IF b = -1 THEN a
    ELSE 2 * BitAnd(a \div 2, b \div 2) + (a % 2) * (b % 2)

\* ----------------------------------------------------------------- state
VARIABLES
    constructed,   \* "new" before __init__, "ok" once it returned, "failed" if it raised
    capacity,      \* self._capacity
    prefetch,      \* self._prefetch
    origin,        \* self._origin: None or Some(n)
    packets,       \* self._packets: slot index -> None or Some(packet)
    result,        \* value returned by the last call: None or Some(frame)
    raised,        \* exception raised by the last call, "" if it returned
    call,          \* the last call: [op, packet, count]
    pre,           \* origin and slots when the last call began
    mid,           \* last add: origin and slots right after line 60 (stored tells if it got there)
    pending,       \* SpecStream: packets still to be added
    log,           \* SpecStream: results of the adds so far
    other          \* SpecTwin: the second buffer, while the first one is being called

vars == <<constructed, capacity, prefetch, origin, packets, result, raised,
          call, pre, mid, pending, log, other>>

\* ------------------------------------------------------------ operations

\* JitterBuffer.__init__: the assertion on capacity.
CapacityAccepted(cap) == BitAnd(cap, cap - 1) = 0

EmptySlots(cap) == [i \in 0..(cap - 1) |-> None]

\* Mutant of RemovePos: the slot after the oldest one is cleared.
RemovePosShifted(o) == (o + 1) % capacity

\* pos = self._origin % self._capacity  (remove)
RemovePos(o) == o % capacity

\* Mutant of ScanPos: the scan starts at slot 0 instead of at origin.
ScanPosNoOrigin(o, count) == count % capacity

\* pos = (self._origin + count) % self._capacity  (_remove_frame)
ScanPos(o, count) == (o + count) % capacity

\* Mutant of StorePos: the packet lands one slot too far.
StorePosShifted(seq) == (seq + 1) % capacity

\* pos = packet.sequence_number % self._capacity  (add)
StorePos(seq) == seq % capacity

\* The loop of JitterBuffer.remove, origin being an integer o.
RECURSIVE RemoveLoop(_, _, _)
RemoveLoop(o, pk, n) ==
    IF n <= 0 THEN [origin |-> Some(o), packets |-> pk, raised |-> ""]
    ELSE RemoveLoop(o + 1, [pk EXCEPT ![RemovePos(o)] = None], n - 1)

\* Mutant of remove: the loop runs once more than count.
removeOneMore(o, pk, count) ==
    IF ~(count <= capacity) THEN [origin |-> o, packets |-> pk, raised |-> "AssertionError"]
    ELSE IF count <= 0 THEN [origin |-> o, packets |-> pk, raised |-> ""]
    ELSE IF o = None THEN [origin |-> o, packets |-> pk, raised |-> "TypeError"]
    ELSE RemoveLoop(o[1], pk, count + 1)

\* JitterBuffer.remove(count) applied to origin o (None or Some) and slots pk.
remove(o, pk, count) ==
    IF ~(count <= capacity) THEN [origin |-> o, packets |-> pk, raised |-> "AssertionError"]
    ELSE IF count <= 0 THEN [origin |-> o, packets |-> pk, raised |-> ""]
    ELSE IF o = None THEN [origin |-> o, packets |-> pk, raised |-> "TypeError"]
    ELSE RemoveLoop(o[1], pk, count)

\* Mutant of PrefetchedEnough: one timestamp change too few is waited for.
PrefetchedEnoughEarly(frames) == frames + 1 >= prefetch

\* Mutant of PrefetchedEnough: one more timestamp change is waited for.
PrefetchedEnoughStrict(frames) == frames > prefetch

\* if frames >= self._prefetch
PrefetchedEnough(frames) == frames >= prefetch

\* Mutant of ScanFrom: the packet that closes the first frame is put into it.
RECURSIVE ScanFromClosing(_, _, _, _, _, _, _, _, _, _)
ScanFromClosing(o, pk, count, frame, frames, pkts, rem, timestamp, ntp_timestamp, rtp_diff) ==
    IF count >= capacity
    THEN [origin |-> Some(o), packets |-> pk, result |-> None, raised |-> ""]
    ELSE LET pos == ScanPos(o, count)
             packet == pk[pos]
         IN  IF packet = None
             THEN [origin |-> Some(o), packets |-> pk, result |-> None, raised |-> ""]
             ELSE IF timestamp = None
             THEN ScanFromClosing(o, pk, count + 1, frame, frames, Append(pkts, packet[1]),
                                  rem, Some(packet[1].timestamp),
                                  Some(packet[1].ntp_timestamp), Some(packet[1].rtp_diff))
             ELSE IF packet[1].timestamp # timestamp[1]
             THEN LET frame1 == IF frame = None
                                THEN Some(JitterFrame(Append(pkts, packet[1]), timestamp[1],
                                                      ntp_timestamp[1], rtp_diff[1]))
                                ELSE frame
                      rem1 == IF frame = None THEN count ELSE rem
                  IN  IF PrefetchedEnough(frames + 1)
                      THEN LET r == remove(Some(o), pk, rem1)
                           IN  [origin |-> r.origin, packets |-> r.packets,
                                result |-> IF r.raised = "" THEN frame1 ELSE None,
                                raised |-> r.raised]
                      ELSE ScanFromClosing(o, pk, count + 1, frame1, frames + 1,
                                           <<packet[1]>>, rem1, Some(packet[1].timestamp),
                                           ntp_timestamp, rtp_diff)
             ELSE ScanFromClosing(o, pk, count + 1, frame, frames, Append(pkts, packet[1]),
                                  rem, timestamp, ntp_timestamp, rtp_diff)

\* The for loop of JitterBuffer._remove_frame from iteration count on, with
\* the values of its local variables; o is the (integer) origin.
RECURSIVE ScanFrom(_, _, _, _, _, _, _, _, _, _)
ScanFrom(o, pk, count, frame, frames, pkts, rem, timestamp, ntp_timestamp, rtp_diff) ==
    IF count >= capacity
    THEN [origin |-> Some(o), packets |-> pk, result |-> None, raised |-> ""]
    ELSE LET pos == ScanPos(o, count)
             packet == pk[pos]
         IN  IF packet = None
             THEN [origin |-> Some(o), packets |-> pk, result |-> None, raised |-> ""]
             ELSE IF timestamp = None
             THEN ScanFrom(o, pk, count + 1, frame, frames, Append(pkts, packet[1]), rem,
                           Some(packet[1].timestamp), Some(packet[1].ntp_timestamp),
                           Some(packet[1].rtp_diff))
             ELSE IF packet[1].timestamp # timestamp[1]
             THEN LET frame1 == IF frame = None
                                THEN Some(JitterFrame(pkts, timestamp[1],
                                                      ntp_timestamp[1], rtp_diff[1]))
                                ELSE frame
                      rem1 == IF frame = None THEN count ELSE rem
                  IN  IF PrefetchedEnough(frames + 1)
                      THEN LET r == remove(Some(o), pk, rem1)
                           IN  [origin |-> r.origin, packets |-> r.packets,
                                result |-> IF r.raised = "" THEN frame1 ELSE None,
                                raised |-> r.raised]
                      ELSE ScanFrom(o, pk, count + 1, frame1, frames + 1, <<packet[1]>>,
                                    rem1, Some(packet[1].timestamp), ntp_timestamp, rtp_diff)
             ELSE ScanFrom(o, pk, count + 1, frame, frames, Append(pkts, packet[1]), rem,
                           timestamp, ntp_timestamp, rtp_diff)

\* Mutant of RemoveFrame: when no frame can be extracted the oldest slot is dropped.
RemoveFrameDropping(o, pk) ==
    LET r == ScanFrom(o, pk, 0, None, 0, <<>>, 0, None, None, None)
    IN  IF r.result # None THEN r
        ELSE LET d == remove(Some(o), pk, 1)
             IN  [origin |-> d.origin, packets |-> d.packets, result |-> None,
                  raised |-> d.raised]

\* JitterBuffer._remove_frame
RemoveFrame(o, pk) == ScanFrom(o, pk, 0, None, 0, <<>>, 0, None, None, None)

\* Mutant of Misordered: the reset is never taken (the late test wins).
MisorderedNever(seq, o) == FALSE

\* Mutant of Misordered: the comparison is strict.
MisorderedStrict(seq, o) == seq < o - MAX_MISORDER

\* packet.sequence_number <= self._origin - MAX_MISORDER
Misordered(seq, o) == seq <= o - MAX_MISORDER

\* Mutant of Late: the late-arrival test is missing.
LateMissing(seq, o) == FALSE

\* Mutant of Late: the comparison is off by one.
LateOffByOne(seq, o) == seq < o - 1

\* packet.sequence_number < self._origin
Late(seq, o) == seq < o

\* Mutant of FarAhead: the buffer is reset as soon as the packet is capacity ahead.
FarAheadAtCapacity(delta) == delta >= capacity

\* delta >= 2 * self.capacity
FarAhead(delta) == delta >= 2 * capacity

\* Mutant of Overflow: a packet exactly capacity ahead is not seen as overflow.
OverflowOffByOne(delta) == delta > capacity

\* delta >= self.capacity
Overflow(delta) == delta >= capacity

\* Mutant of Excess: one slot too few is evicted.
ExcessOffByOne(delta) == delta - capacity

\* excess = delta - self.capacity + 1
Excess(delta) == delta - capacity + 1

\* Outcome of a call that stops before the packet is stored.
Stop(o, pk, exc) ==
    [origin |-> o, packets |-> pk, result |-> None, raised |-> exc,
     mid |-> [origin |-> o, packets |-> pk, stored |-> FALSE]]

\* Lines 59-62 of add: store the packet, then extract.  o is an integer.
StoreAndExtract(o, pk, p) ==
    IF capacity = 0 THEN Stop(Some(o), pk, "ZeroDivisionError")
    ELSE LET pos == StorePos(p.sequence_number)
             pk1 == [pk EXCEPT ![pos] = Some(p)]
             r == RemoveFrame(o, pk1)
         IN  [origin |-> r.origin, packets |-> r.packets, result |-> r.result,
              raised |-> r.raised,
              mid |-> [origin |-> Some(o), packets |-> pk1, stored |-> TRUE]]

\* Lines 48-62 of add: fit the packet in the window, store it, extract.
FitAndStore(o, pk, p) ==
    LET delta == p.sequence_number - o
    IN  IF FarAhead(delta)
        THEN LET r == remove(Some(o), pk, capacity)
             IN  IF r.raised # "" THEN Stop(r.origin, r.packets, r.raised)
                 ELSE StoreAndExtract(p.sequence_number, r.packets, p)
        ELSE IF Overflow(delta)
        THEN LET r == remove(Some(o), pk, Excess(delta))
             IN  IF r.raised # "" THEN Stop(r.origin, r.packets, r.raised)
                 ELSE StoreAndExtract(r.origin[1], r.packets, p)
        ELSE StoreAndExtract(o, pk, p)

\* JitterBuffer.add(packet) applied to origin o and slots pk.
add(o, pk, p) ==
    IF o = None THEN FitAndStore(p.sequence_number, pk, p)
    ELSE IF Misordered(p.sequence_number, o[1])
    THEN LET r == remove(o, pk, capacity)
         IN  IF r.raised # "" THEN Stop(r.origin, r.packets, r.raised)
             ELSE FitAndStore(p.sequence_number, r.packets, p)
    ELSE IF Late(p.sequence_number, o[1]) THEN Stop(o, pk, "")
    ELSE FitAndStore(o[1], pk, p)

\* ---------------------------------------------------------------- actions
NoCall == [op |-> "none", packet |-> None, count |-> 0]
NoSnapshot == [origin |-> None, packets |-> <<>>, stored |-> FALSE]

Init ==
    /\ constructed = "new"
    /\ capacity = 0
    /\ prefetch = 0
    /\ origin = None
    /\ packets = <<>>
    /\ result = None
    /\ raised = ""
    /\ call = NoCall
    /\ pre = NoSnapshot
    /\ mid = NoSnapshot
    /\ pending = <<>>
    /\ log = <<>>
    /\ other = None

\* JitterBuffer(capacity=cap, prefetch=pf)
Construct ==
    /\ constructed = "new"
    /\ \E cap \in CapacityInputs, pf \in PrefetchInputs :
          /\ call' = [op |-> "init", packet |-> None, count |-> cap]
          /\ IF CapacityAccepted(cap)
             THEN /\ constructed' = "ok"
                  /\ capacity' = cap
                  /\ prefetch' = pf
                  /\ packets' = EmptySlots(cap)
                  /\ raised' = ""
             ELSE /\ constructed' = "failed"
                  /\ raised' = "AssertionError"
                  /\ UNCHANGED <<capacity, prefetch, packets>>
    /\ UNCHANGED <<origin, result, pre, mid, pending, log, other>>

\* The effect of buffer.add(p) on the buffer and the history variables.
AddCall(p) ==
    LET r == add(origin, packets, p)
    IN  /\ origin' = r.origin
        /\ packets' = r.packets
        /\ result' = r.result
        /\ raised' = r.raised
        /\ call' = [op |-> "add", packet |-> Some(p), count |-> 0]
        /\ pre' = [origin |-> origin, packets |-> packets, stored |-> FALSE]
        /\ mid' = r.mid
        /\ UNCHANGED <<constructed, capacity, prefetch>>

\* buffer.add(p) for any packet p
Add ==
    /\ constructed = "ok"
    /\ \E p \in Packets : AddCall(p)
    /\ UNCHANGED <<pending, log, other>>

\* The caller's own remove calls keep origin among the sequence numbers in use.
OriginInRange(n) == n <= MaxSeq + 1 \/ (MAX_MISORDER <= n /\ n <= MAX_MISORDER + MaxFar + 1)

\* buffer.remove(count) called by the owner of the buffer
Remove ==
    /\ constructed = "ok"
    /\ \E count \in 0..(capacity + 1) :
          /\ origin # None => OriginInRange(origin[1] + count)
          /\ LET r == remove(origin, packets, count)
             IN  /\ origin' = r.origin
                 /\ packets' = r.packets
                 /\ raised' = r.raised
          /\ call' = [op |-> "remove", packet |-> None, count |-> count]
    /\ result' = None
    /\ pre' = [origin |-> origin, packets |-> packets, stored |-> FALSE]
    /\ mid' = NoSnapshot
    /\ UNCHANGED <<constructed, capacity, prefetch, pending, log, other>>

Next == Construct \/ Add \/ Remove

Spec == Init /\ [][Next]_vars

\* ------------------------------------------------- scripted packet streams
\* The stream of the spec's examples: packets 0,1,2 share timestamp 1000 and
\* every later packet opens a new timestamp group (3 -> 2000, 4 -> 3000, ...).
StreamPacket(seq) == RtpPacket(seq, IF seq <= 2 THEN 1000 ELSE 1000 * (seq - 1), 1)

InOrder(n) == [i \in 1..n |-> StreamPacket(i - 1)]

\* Every arrival order of the packets 0..3.
Orders4 ==
    {s \in [1..4 -> 0..3] : \A i, j \in 1..4 : i # j => s[i] # s[j]}

\* Packets 0 and 2 of one frame (packet 1 never arrives), then packets 3, 4, 5
\* of the next frame.
GapStream ==
    <<RtpPacket(0, 1000, 1), RtpPacket(2, 1000, 1), RtpPacket(3, 2000, 1),
      RtpPacket(4, 2000, 1), RtpPacket(5, 2000, 1)>>

Streams ==
    {[i \in 1..4 |-> StreamPacket(s[i])] : s \in Orders4}
        \cup {InOrder(StreamLen)} \cup {GapStream}

StreamCapacities == {2 ^ k : k \in 0..MaxCapacityLog}

\* A freshly constructed buffer and a stream still to be fed to it.
InitStream ==
    /\ constructed = "ok"
    /\ capacity \in StreamCapacities
    /\ prefetch \in PrefetchInputs
    /\ origin = None
    /\ packets = EmptySlots(capacity)
    /\ result = None
    /\ raised = ""
    /\ call = NoCall
    /\ pre = NoSnapshot
    /\ mid = NoSnapshot
    /\ pending \in Streams
    /\ log = <<>>
    /\ other = None

\* buffer.add(next packet of the stream)
AddPending ==
    /\ pending # <<>>
    /\ AddCall(Head(pending))
    /\ pending' = Tail(pending)
    /\ log' = Append(log, [packet |-> Head(pending), result |-> result',
                           raised |-> raised'])
    /\ UNCHANGED other

NextStream == AddPending

SpecStream == InitStream /\ [][NextStream]_vars

\* ------------------------------------------- two buffers fed the same calls
\* Two buffers of equal capacity, built with prefetch=0 and prefetch=1.  The
\* variables of the buffer describe the one that is being called; the other
\* one is kept in the variable other.  step tells whether both have received
\* the same calls ("even"), the current one has received one call more
\* ("ahead") or one call less ("behind").
AcceptedCapacities == {cap \in CapacityInputs : CapacityAccepted(cap)}

InitTwin ==
    /\ constructed = "ok"
    /\ capacity \in AcceptedCapacities
    /\ prefetch = 0
    /\ origin = None
    /\ packets = EmptySlots(capacity)
    /\ result = None
    /\ raised = ""
    /\ call = NoCall
    /\ pre = NoSnapshot
    /\ mid = NoSnapshot
    /\ pending = <<>>
    /\ log = <<>>
    /\ other = Some([prefetch |-> 1, origin |-> None, packets |-> EmptySlots(capacity),
                     result |-> None, raised |-> "", step |-> "even"])

\* first.add(p): one of the two buffers receives the next packet
TwinAddFirst ==
    /\ other[1].step = "even"
    /\ \E p \in Packets : AddCall(p)
    /\ other' = Some([other[1] EXCEPT !.step = "ahead"])
    /\ UNCHANGED <<pending, log>>

\* The caller turns to the buffer that has not received the packet yet.
TwinSwitch ==
    /\ other[1].step = "ahead"
    /\ prefetch' = other[1].prefetch
    /\ origin' = other[1].origin
    /\ packets' = other[1].packets
    /\ result' = other[1].result
    /\ raised' = other[1].raised
    /\ other' = Some([prefetch |-> prefetch, origin |-> origin, packets |-> packets,
                      result |-> result, raised |-> raised, step |-> "behind"])
    /\ UNCHANGED <<constructed, capacity, call, pre, mid, pending, log>>

\* second.add(p): that buffer receives the same packet
TwinAddSecond ==
    /\ other[1].step = "behind"
    /\ AddCall(call.packet[1])
    /\ other' = Some([other[1] EXCEPT !.step = "even"])
    /\ UNCHANGED <<pending, log>>

NextTwin == TwinAddFirst \/ TwinSwitch \/ TwinAddSecond

SpecTwin == InitTwin /\ [][NextTwin]_vars

\* ------------------------------------ packets around the 16-bit wrap point
\* Sequence numbers are 16-bit on the wire: 0 .. SeqLimit - 1.
SeqLimit == 2 ^ 16

WrapSeqNumbers == ((SeqLimit - 1 - MaxWrapBack)..(SeqLimit - 1)) \cup (0..MaxWrapAhead)

WrapPackets ==
    {RtpPacket(s, t, v) : s \in WrapSeqNumbers, t \in Timestamps, v \in 1..NumVariants}

\* A freshly constructed buffer.
InitWrap ==
    /\ constructed = "ok"
    /\ capacity \in AcceptedCapacities
    /\ prefetch \in PrefetchInputs
    /\ origin = None
    /\ packets = EmptySlots(capacity)
    /\ result = None
    /\ raised = ""
    /\ call = NoCall
    /\ pre = NoSnapshot
    /\ mid = NoSnapshot
    /\ pending = <<>>
    /\ log = <<>>
    /\ other = None

\* buffer.add(p) for a packet p sent shortly before or after the wrap
AddWrap ==
    /\ \E p \in WrapPackets : AddCall(p)
    /\ UNCHANGED <<pending, log, other>>

NextWrap == AddWrap

SpecWrap == InitWrap /\ [][NextWrap]_vars

TypeOK ==
    /\ constructed \in {"new", "ok", "failed"}
    /\ raised \in {"", "AssertionError", "ZeroDivisionError", "TypeError"}
    /\ Len(origin) <= 1
    /\ Len(result) <= 1

\* ================================================================ claims
\* Shorthands over the history variables.
AddDone == constructed = "ok" /\ call.op = "add"
SeqNo == call.packet[1].sequence_number
Delta == SeqNo - pre.origin[1]
Occupied(pk) == {i \in DOMAIN pk : pk[i] # None}
IsPowerOfTwo(n) == n >= 1 /\ \E k \in 0..n : 2 ^ k = n

\* C8 (as claimed): constructing with a capacity that is not a power of two
\* always fails, and constructing with a power of two always succeeds, with
\* all slots empty and origin unset.
C8_CapacityValidation ==
    call.op = "init" =>
        IF IsPowerOfTwo(call.count)
        THEN /\ constructed = "ok"
             /\ raised = ""
             /\ capacity = call.count
             /\ origin = None
             /\ DOMAIN packets = 0..(capacity - 1)
             /\ \A i \in DOMAIN packets : packets[i] = None
        ELSE constructed = "failed"

\* C8 (what the constructor does): it rejects exactly the capacities whose
\* bitwise test fails, which lets capacity 0 through.
C8_ZeroAccepted ==
    call.op = "init" =>
        (constructed = "ok" <=> (IsPowerOfTwo(call.count) \/ call.count = 0))

\* C9: after every add or remove, every occupied slot holds a packet whose
\* sequence number s satisfies origin <= s < origin + capacity and sits at
\* index s mod capacity; hence at most capacity packets are buffered.
C9_WindowInvariant ==
    constructed = "ok" =>
        /\ DOMAIN packets = 0..(capacity - 1)
        /\ Cardinality(Occupied(packets)) <= capacity
        /\ \A i \in Occupied(packets) :
              /\ origin # None
              /\ origin[1] <= packets[i][1].sequence_number
              /\ packets[i][1].sequence_number < origin[1] + capacity
              /\ packets[i][1].sequence_number % capacity = i

\* C9 witness: an add evicted old slots to fit its packet and the window is
\* full afterwards.
C9_Witness ==
    /\ AddDone /\ pre.origin # None /\ mid.stored
    /\ mid.origin[1] > pre.origin[1]
    /\ capacity = 4
    /\ Cardinality(Occupied(packets)) = capacity

\* C4 (as claimed): whenever origin > 0, add of a packet with sequence number
\* 0 returns nothing and leaves origin and every slot unchanged (stated for
\* buffers that have at least one slot).
C4_LateDropAnyOrigin ==
    (AddDone /\ capacity > 0 /\ pre.origin # None /\ pre.origin[1] > 0 /\ SeqNo = 0) =>
        /\ result = None /\ raised = ""
        /\ origin = pre.origin
        /\ packets = pre.packets

\* C4 (amended): whenever 0 < origin < MAX_MISORDER, add of a packet with
\* sequence number 0 returns nothing and leaves origin and every slot
\* unchanged; once origin >= MAX_MISORDER the same add re-originates the
\* buffer at 0.
C4_LateDropBelowMisorder ==
    /\ (AddDone /\ pre.origin # None /\ pre.origin[1] > 0
          /\ pre.origin[1] < MAX_MISORDER /\ SeqNo = 0) =>
        /\ result = None /\ raised = ""
        /\ origin = pre.origin
        /\ packets = pre.packets
    /\ (AddDone /\ pre.origin # None /\ pre.origin[1] >= MAX_MISORDER /\ SeqNo = 0) =>
        /\ result = None
        /\ origin = Some(0)

\* C4 witness: packet 0 was re-added to a non-empty buffer whose origin had
\* advanced past 0.
C4_Witness ==
    /\ AddDone /\ pre.origin # None /\ SeqNo = 0
    /\ pre.origin[1] > 0 /\ pre.origin[1] < MAX_MISORDER
    /\ Occupied(packets) # {}
    /\ result = None

\* C5 (as claimed): an add whose delta = sequence_number - origin lies in
\* [C, 2C) leaves origin at the previous origin plus exactly delta - C + 1.
C5_OriginAdvancesExactly ==
    (AddDone /\ pre.origin # None /\ Delta >= capacity /\ Delta < 2 * capacity) =>
        origin = Some(pre.origin[1] + Delta - capacity + 1)

\* C5 (amended): such an add evicts exactly the delta - C + 1 oldest slots,
\* which moves origin by exactly that amount before the packet is stored;
\* when the add then returns a frame, origin advances further by the number
\* of packets of that frame, and not at all when it returns nothing.
C5_EvictionThenExtraction ==
    (AddDone /\ pre.origin # None /\ Delta >= capacity /\ Delta < 2 * capacity) =>
        LET excess == Delta - capacity + 1
            evicted == {(pre.origin[1] + j) % capacity : j \in 0..(excess - 1)}
        IN  /\ raised = ""
            /\ mid.stored
            /\ mid.origin = Some(pre.origin[1] + excess)
            /\ \A i \in DOMAIN packets :
                  mid.packets[i] = IF i = SeqNo % capacity THEN call.packet
                                   ELSE IF i \in evicted THEN None
                                   ELSE pre.packets[i]
            /\ origin = Some(mid.origin[1]
                             + (IF result = None THEN 0 ELSE Len(result[1].packets)))

\* C5 witness: an overflow add evicted more than one slot, one of them
\* occupied, and then returned a frame.
C5_Witness ==
    /\ AddDone /\ pre.origin # None /\ Delta > capacity /\ Delta < 2 * capacity
    /\ Cardinality(Occupied(pre.packets)) >= 2
    /\ result # None

\* The packets held in the slots pk, as a set.
Held(pk) == {pk[i][1] : i \in Occupied(pk)}

\* Number of consecutive occupied slots from sequence number o on (at most capacity).
RunLen(o, pk) ==
    Cardinality({n \in 1..capacity : \A j \in 0..(n - 1) : pk[(o + j) % capacity] # None})

\* Number of timestamp changes between neighbours in that run.
Changes(o, pk) ==
    Cardinality({j \in 1..(RunLen(o, pk) - 1) :
        pk[(o + j) % capacity][1].timestamp # pk[(o + j - 1) % capacity][1].timestamp})

\* The run from o shows enough timestamp changes for a frame to be released.
Releasable(o, pk) == Changes(o, pk) >= 1 /\ Changes(o, pk) >= prefetch

\* C3: every frame returned by add consists of exactly the packets held in
\* consecutive slots from origin (as it stands when extraction begins) up to,
\* but not including, the first packet whose timestamp differs; their
\* sequence numbers are consecutive and increasing, they share one timestamp,
\* data is the concatenation of their (one-byte) payloads in that order, and
\* timestamp, ntp_timestamp and rtp_diff are those of the first of them.
C3_FrameContent ==
    (AddDone /\ result # None) =>
        LET f == result[1]
            n == Len(f.packets)
            o == mid.origin[1]
        IN  /\ mid.stored
            /\ n >= 1 /\ n < capacity
            /\ \A i \in 1..n :
                  /\ mid.packets[(o + i - 1) % capacity] = Some(f.packets[i])
                  /\ f.packets[i].sequence_number = o + i - 1
                  /\ f.packets[i].timestamp = f.timestamp
            /\ mid.packets[(o + n) % capacity] # None
            /\ mid.packets[(o + n) % capacity][1].timestamp # f.timestamp
            /\ Len(f.data) = n
            /\ \A i \in 1..n : f.data[i] = f.packets[i].data[1]
            /\ f.timestamp = f.packets[1].timestamp
            /\ f.ntp_timestamp = f.packets[1].ntp_timestamp
            /\ f.rtp_diff = f.packets[1].rtp_diff

\* C3 witness: add returned a frame of two packets from a buffer that waits
\* for two timestamp changes.
C3_Witness ==
    /\ AddDone /\ result # None
    /\ Len(result[1].packets) = 2
    /\ prefetch = 2

\* C7: no add returns a frame that contains, or is closed by, a packet whose
\* sequence number lies beyond a slot of the window that is empty when the
\* extraction scan runs; the timestamp changes that release a frame all lie
\* in the run of occupied slots that starts at origin.
C7_GapStall ==
    (AddDone /\ mid.stored) =>
        /\ \A s \in mid.origin[1]..(mid.origin[1] + capacity - 1) :
              mid.packets[s % capacity] = None =>
                  \/ result = None
                  \/ /\ \A i \in 1..Len(result[1].packets) :
                           result[1].packets[i].sequence_number < s
                     /\ origin[1] < s
        /\ result # None => Releasable(mid.origin[1], mid.packets)

\* C7 witness: a packet was stored beyond an empty slot of the window, with
\* packets on both sides of the gap, and add returned nothing.
C7_Witness ==
    /\ AddDone /\ mid.stored /\ result = None
    /\ capacity = 4
    /\ mid.packets[mid.origin[1] % capacity] # None
    /\ mid.packets[(mid.origin[1] + 1) % capacity] # None
    /\ mid.packets[(mid.origin[1] + 2) % capacity] = None
    /\ mid.packets[(mid.origin[1] + 3) % capacity] # None
    /\ SeqNo = mid.origin[1] + 3
    /\ mid.packets[(mid.origin[1] + 1) % capacity][1].timestamp
         # mid.packets[(mid.origin[1] + 3) % capacity][1].timestamp

\* C6 (as claimed): an add whose sequence number exceeds origin by at least
\* 2C clears every slot, sets origin to the new packet's sequence number,
\* leaves the new packet as the only buffered packet and returns nothing; and
\* no add brings a flushed packet back: the packets buffered after any add
\* are among those buffered before it plus the packet added, and a returned
\* frame is made of those only.
C6_FullFlush ==
    /\ (AddDone /\ pre.origin # None /\ Delta > 0 /\ Delta >= 2 * capacity) =>
          /\ raised = ""
          /\ result = None
          /\ origin = Some(SeqNo)
          /\ Held(packets) = {call.packet[1]}
    /\ AddDone =>
          /\ Held(packets) \subseteq Held(pre.packets) \cup {call.packet[1]}
          /\ result # None =>
                \A i \in 1..Len(result[1].packets) :
                    result[1].packets[i] \in Held(pre.packets) \cup {call.packet[1]}

\* C6, restricted to buffers with at least one slot (holds).
C6_FullFlushWithSlots ==
    capacity > 0 => C6_FullFlush

\* C10 (as claimed): each add returns at most one frame and removes only that
\* frame's packets; and whenever a releasable frame is already buffered from
\* origin when add is called, that add returns it.
C10_BacklogAlwaysDrains ==
    /\ (AddDone /\ result # None) =>
          LET n == Len(result[1].packets)
          IN  /\ origin = Some(mid.origin[1] + n)
              /\ \A i \in DOMAIN packets :
                    packets[i] = IF \E j \in 0..(n - 1) : i = (mid.origin[1] + j) % capacity
                                 THEN None ELSE mid.packets[i]
    /\ (AddDone /\ pre.origin # None /\ Releasable(pre.origin[1], pre.packets)) =>
          /\ result # None
          /\ result[1].packets[1].sequence_number = pre.origin[1]

\* C10 (amended): each add returns at most one frame and removes only that
\* frame's packets; whenever a releasable frame is already buffered from
\* origin, an add that stores its packet in an empty slot of the current
\* window returns that frame, the oldest one, so such calls release the
\* backlog one frame per call in increasing sequence order.
C10_BacklogDrainsOnStore ==
    /\ (AddDone /\ result # None) =>
          LET n == Len(result[1].packets)
          IN  /\ origin = Some(mid.origin[1] + n)
              /\ \A i \in DOMAIN packets :
                    packets[i] = IF \E j \in 0..(n - 1) : i = (mid.origin[1] + j) % capacity
                                 THEN None ELSE mid.packets[i]
    /\ (AddDone /\ pre.origin # None /\ Releasable(pre.origin[1], pre.packets)
          /\ pre.origin[1] <= SeqNo /\ SeqNo < pre.origin[1] + capacity
          /\ pre.packets[SeqNo % capacity] = None) =>
          /\ result # None
          /\ result[1].packets[1].sequence_number = pre.origin[1]
          /\ origin[1] > pre.origin[1]

\* C10 witness: a releasable frame was buffered when add was called with a
\* packet for an empty slot, add returned it, and another one is still left.
C10_Witness ==
    /\ AddDone /\ pre.origin # None /\ Releasable(pre.origin[1], pre.packets)
    /\ pre.packets[SeqNo % capacity] = None
    /\ result # None
    /\ Releasable(origin[1], packets)

\* ------------------------------------------------ claims on packet streams
\* Sequence numbers of the packets added so far, in arrival order.
Arrival == [i \in 1..Len(log) |-> log[i].packet.sequence_number]

\* The frames returned so far, in the order they were returned.
RECURSIVE FramesOf(_)
FramesOf(l) ==
    IF l = <<>> THEN <<>>
    ELSE (IF Head(l).result = None THEN <<>> ELSE <<Head(l).result[1]>>)
             \o FramesOf(Tail(l))

\* The frames a buffer in state (o, pk) returns when fed the stream.
RECURSIVE RunAdds(_, _, _)
RunAdds(o, pk, stream) ==
    IF stream = <<>> THEN <<>>
    ELSE LET r == add(o, pk, Head(stream))
         IN  (IF r.result = None THEN <<>> ELSE <<r.result[1]>>)
                 \o RunAdds(r.origin, r.packets, Tail(stream))

\* What a fresh buffer returns for the arrival order 0,1,2,3.
InOrderYield == RunAdds(None, EmptySlots(capacity), InOrder(4))

\* The frame made of the packets lo..hi of the stream.
StreamFrame(lo, hi) ==
    [data |-> [i \in 1..(hi - lo + 1) |-> StreamPacket(lo + i - 1).data[1]],
     packets |-> [i \in 1..(hi - lo + 1) |-> StreamPacket(lo + i - 1)],
     timestamp |-> StreamPacket(lo).timestamp,
     ntp_timestamp |-> StreamPacket(lo).ntp_timestamp,
     rtp_diff |-> StreamPacket(lo).rtp_diff]

\* The packets added so far are 0,1,2,... in order.
InOrderSoFar == \A i \in 1..Len(log) : log[i].packet = StreamPacket(i - 1)

\* C1 (as claimed): with prefetch=0, the arrival order 1,0,2,3 yields, once
\* all four packets have been added, the same frames as the arrival order
\* 0,1,2,3.
C1_OrderIndependent ==
    (prefetch = 0 /\ Arrival = <<1, 0, 2, 3>>) =>
        FramesOf(log) = InOrderYield

\* C1 (amended): with prefetch=0 and capacity >= 4, every arrival order of
\* the four packets that begins with packet 0 yields, once all four have been
\* added, exactly the frame of the in-order case (packets 0,1,2, timestamp
\* 1000); in the arrival order 1,0,2,3 packet 0 arrives behind origin and is
\* dropped, and the frame returned holds packets 1,2 only.
C1_OrderIndependentAfterFirst ==
    /\ (prefetch = 0 /\ capacity >= 4 /\ Len(log) = 4 /\ pending = <<>>
          /\ Arrival[1] = 0) =>
          /\ FramesOf(log) = InOrderYield
          /\ FramesOf(log) = <<StreamFrame(0, 2)>>
          /\ result # None
    /\ (prefetch = 0 /\ capacity >= 4 /\ Arrival = <<1, 0, 2, 3>>) =>
          /\ log[2].result = None
          /\ FramesOf(log) = <<StreamFrame(1, 2)>>

\* C1 witness: the packets arrived in the order 0,2,1,3 and the frame of
\* packets 0,1,2 came out.
C1_Witness ==
    /\ prefetch = 0 /\ capacity = 4
    /\ Arrival = <<0, 2, 1, 3>>
    /\ FramesOf(log) = <<StreamFrame(0, 2)>>

\* C2 (as claimed): with prefetch = k >= 1 and the stream 0,1,2 (timestamp
\* 1000), 3 (2000), 4 (3000), ... in a buffer that holds them all, no frame
\* is returned before k further timestamp changes after the first frame's
\* own boundary are present; in particular the fourth add returns nothing.
C2_PrefetchWaitsForFurtherBoundaries ==
    (prefetch >= 1 /\ capacity >= StreamLen /\ InOrderSoFar) =>
        \A i \in 1..Len(log) : log[i].result # None => i >= 4 + prefetch

\* C2 (amended): with prefetch = k >= 1 the first frame is returned by the
\* add that makes k timestamp changes, its own boundary included, present in
\* the contiguous run from origin: with prefetch=1 the fourth add returns it
\* (as with prefetch=0), with prefetch=2 the fourth add returns nothing and
\* the fifth returns it; until then the packets 0,1,2 stay in the buffer.
C2_PrefetchCountsOwnBoundary ==
    (capacity >= StreamLen /\ InOrderSoFar) =>
        LET k == IF prefetch >= 1 THEN prefetch ELSE 1
        IN  /\ \A i \in 1..Len(log) :
                  /\ i < 3 + k => log[i].result = None
                  /\ i = 3 + k => log[i].result = Some(StreamFrame(0, 2))
            /\ Len(log) < 3 + k =>
                  /\ origin = IF log = <<>> THEN None ELSE Some(0)
                  /\ \A j \in 0..2 : j < Len(log) => packets[j] = Some(StreamPacket(j))

\* C2 witness: with prefetch=2 the fourth add returned nothing and the fifth
\* returned the frame of packets 0,1,2.
C2_Witness ==
    /\ prefetch = 2 /\ capacity >= StreamLen /\ InOrderSoFar
    /\ Len(log) = 5
    /\ log[4].result = None
    /\ log[5].result = Some(StreamFrame(0, 2))

\* --------------------------------------------------------- claims C11..C20
\* The packet of the last add has a sequence number that was already stored
\* when the call began.
Duplicate ==
    \E i \in Occupied(pre.packets) : pre.packets[i][1].sequence_number = SeqNo

\* The packet of the last add is a copy of a packet that was stored when the
\* call began.
ExactDuplicate ==
    \E i \in Occupied(pre.packets) : pre.packets[i] = call.packet

\* C11 (as claimed): add of a duplicate (a copy of a packet that is already
\* stored) or of a late arrival (its sequence number is behind origin)
\* returns nothing and never fails (stated for buffers that have at least one
\* slot).
C11_DuplicateOrLateReturnsNothing ==
    (AddDone /\ capacity > 0 /\ pre.origin # None
       /\ (ExactDuplicate \/ SeqNo < pre.origin[1])) =>
        /\ result = None
        /\ raised = ""

\* C11 (amended): add of a late arrival less than MAX_MISORDER behind origin
\* returns nothing, never fails and leaves the buffer unchanged; add of a
\* duplicate inside the window never fails, stores the packet over its copy
\* and runs the extraction, so it returns nothing only if no releasable frame
\* is buffered from origin, and returns that frame otherwise.
C11_LateDroppedDuplicateRescans ==
    /\ (AddDone /\ pre.origin # None
          /\ SeqNo < pre.origin[1] /\ SeqNo > pre.origin[1] - MAX_MISORDER) =>
          /\ result = None /\ raised = ""
          /\ origin = pre.origin /\ packets = pre.packets
    /\ (AddDone /\ pre.origin # None /\ Duplicate) =>
          /\ raised = ""
          /\ mid.stored
          /\ mid.origin = pre.origin
          /\ mid.packets = [pre.packets EXCEPT ![SeqNo % capacity] = call.packet]
          /\ result # None <=> Releasable(mid.origin[1], mid.packets)

\* C11 witness: a packet identical to one already stored was added again
\* and add returned a frame.
C11_Witness ==
    /\ AddDone /\ pre.origin # None /\ ExactDuplicate
    /\ result # None

\* C12 (as claimed): add of a packet with sequence_number <= origin -
\* MAX_MISORDER clears all slots, sets origin to that packet's sequence
\* number, stores it as the only buffered packet and returns nothing; a
\* packet with origin - MAX_MISORDER < sequence_number < origin is discarded.
C12_MisorderReset ==
    /\ (AddDone /\ pre.origin # None /\ SeqNo <= pre.origin[1] - MAX_MISORDER) =>
          /\ raised = ""
          /\ result = None
          /\ origin = Some(SeqNo)
          /\ Held(packets) = {call.packet[1]}
    /\ (AddDone /\ pre.origin # None
          /\ SeqNo < pre.origin[1] /\ SeqNo > pre.origin[1] - MAX_MISORDER) =>
          /\ raised = ""
          /\ result = None
          /\ origin = pre.origin /\ packets = pre.packets

\* C12, restricted to buffers with at least one slot (holds).
C12_MisorderResetWithSlots ==
    capacity > 0 => C12_MisorderReset

\* C13: an add that stores its packet returns a frame if and only if the run
\* of occupied slots from origin (at most capacity of them) contains at least
\* one timestamp change and the number of its timestamp changes reaches
\* prefetch.
C13_ExtractionThreshold ==
    (AddDone /\ mid.stored) =>
        /\ raised = ""
        /\ result # None <=>
              (Changes(mid.origin[1], mid.packets) >= 1
                 /\ Changes(mid.origin[1], mid.packets) >= prefetch)

\* C13 witness: with prefetch=2 an add stored its packet, the run from origin
\* showed exactly one timestamp change, and nothing was returned.
C13_Witness ==
    /\ AddDone /\ mid.stored /\ prefetch = 2
    /\ Changes(mid.origin[1], mid.packets) = 1
    /\ result = None

\* C14: when add returns a frame, extraction clears exactly the slots of that
\* frame's packets and advances origin by the number of packets in the frame;
\* afterwards the slot at origin holds the packet whose differing timestamp
\* closed the frame, and every other buffered packet is unchanged.
C14_FrameConsumption ==
    (AddDone /\ result # None) =>
        LET f == result[1]
            n == Len(f.packets)
            frameSlots == {f.packets[i].sequence_number % capacity : i \in 1..n}
        IN  /\ origin = Some(mid.origin[1] + n)
            /\ \A i \in DOMAIN packets :
                  packets[i] = IF i \in frameSlots THEN None ELSE mid.packets[i]
            /\ Cardinality(Occupied(packets)) = Cardinality(Occupied(mid.packets)) - n
            /\ packets[origin[1] % capacity] # None
            /\ packets[origin[1] % capacity][1].sequence_number = origin[1]
            /\ packets[origin[1] % capacity][1].timestamp # f.timestamp

\* C14 witness: add returned a frame of two packets while a packet beyond the
\* closing one was buffered too.
C14_Witness ==
    /\ AddDone /\ result # None
    /\ Len(result[1].packets) = 2
    /\ Cardinality(Occupied(packets)) = 2

\* C15: when the extraction scan returns nothing, origin and all slots are
\* exactly as they were right after the packet was stored, including the
\* packets of a first frame whose boundary is visible but not yet released
\* because of prefetch.
C15_NoFrameReadOnly ==
    (AddDone /\ mid.stored /\ result = None) =>
        /\ raised = ""
        /\ origin = mid.origin
        /\ packets = mid.packets

\* C15 witness: with prefetch=2 the first frame's boundary was visible, add
\* returned nothing and the frame's packets are still buffered.
C15_Witness ==
    /\ AddDone /\ mid.stored /\ result = None /\ prefetch = 2
    /\ Changes(origin[1], packets) = 1
    /\ packets[origin[1] % capacity] # None
    /\ packets[origin[1] % capacity][1].sequence_number = origin[1]

\* The whole of GapStream has been added.
GapStreamAdded ==
    Len(log) = Len(GapStream) /\ \A i \in 1..Len(log) : log[i].packet = GapStream[i]

\* C16: if capacity-overflow eviction advances origin past an unfilled gap,
\* the next extraction scans from the new origin and can return a frame made
\* only of the surviving packets of a timestamp, with no error signalled:
\* with capacity 4, packets 0,2 (timestamp 1000) then 3,4,5 (timestamp 2000)
\* return, on the last add, a frame holding only packet 2; and whenever an
\* add that evicted slots returns a frame, the frame starts at the new origin
\* and is made of packets that survived the eviction.
C16_SilentPartialFrame ==
    /\ (capacity = 4 /\ prefetch <= 1 /\ GapStreamAdded) =>
          /\ \A i \in 1..Len(log) : log[i].raised = ""
          /\ \A i \in 1..(Len(log) - 1) : log[i].result = None
          /\ log[5].result =
                Some([data |-> GapStream[2].data, packets |-> <<GapStream[2]>>,
                      timestamp |-> 1000,
                      ntp_timestamp |-> GapStream[2].ntp_timestamp,
                      rtp_diff |-> GapStream[2].rtp_diff])
          /\ origin = Some(3)
    /\ (AddDone /\ pre.origin # None /\ mid.stored
          /\ mid.origin[1] > pre.origin[1] /\ result # None) =>
          /\ raised = ""
          /\ result[1].packets[1].sequence_number = mid.origin[1]
          /\ \A i \in 1..Len(result[1].packets) :
                result[1].packets[i] \in Held(mid.packets)

\* C16 witness: GapStream was fed to a buffer of capacity 4 and the last add
\* returned a one-packet frame although packet 0 had the same timestamp.
C16_Witness ==
    /\ capacity = 4 /\ prefetch = 0 /\ GapStreamAdded
    /\ result # None
    /\ Len(result[1].packets) = 1
    /\ result[1].timestamp = GapStream[1].timestamp
    /\ mid.origin[1] > pre.origin[1]

\* C17 (as claimed): remove(count) with count <= capacity clears exactly the
\* count slots at indices (origin + i) mod capacity for 0 <= i < count,
\* advances origin by count and leaves all other slots unchanged; and no
\* remove issued from inside add violates the assertion of remove.
C17_RemoveContract ==
    /\ (constructed = "ok" /\ call.op = "remove" /\ call.count <= capacity) =>
          /\ raised = ""
          /\ \/ call.count = 0 /\ origin = pre.origin /\ packets = pre.packets
             \/ /\ pre.origin # None
                /\ origin = Some(pre.origin[1] + call.count)
                /\ \A i \in DOMAIN packets :
                      packets[i] =
                          IF \E j \in 0..(call.count - 1) : i = (pre.origin[1] + j) % capacity
                          THEN None ELSE pre.packets[i]
    /\ AddDone => raised # "AssertionError"

\* C17, restricted to calls made once origin is set (holds).
C17_RemoveContractOriginSet ==
    (call.op = "remove" => pre.origin # None) => C17_RemoveContract

\* C18: every frame returned by add contains at least 1 and at most
\* capacity - 1 packets, all of one timestamp; with capacity 1 add never
\* returns a frame.
C18_FrameSizeLimit ==
    (AddDone /\ result # None) =>
        /\ capacity >= 2
        /\ Len(result[1].packets) >= 1
        /\ Len(result[1].packets) <= capacity - 1
        /\ \A i \in 1..Len(result[1].packets) :
              result[1].packets[i].timestamp = result[1].timestamp

\* C18 witness: add returned a frame of capacity - 1 = 3 packets.
C18_Witness ==
    /\ AddDone /\ result # None
    /\ capacity = 4
    /\ Len(result[1].packets) = 3

\* C19: two buffers of equal capacity built with prefetch=0 and prefetch=1
\* and fed the same sequence of add calls return the same result on every
\* call and have equal origin and slot contents after every call.
C19_PrefetchZeroOneEquivalent ==
    (other # None /\ other[1].step = "even") =>
        /\ {prefetch, other[1].prefetch} = {0, 1}
        /\ result = other[1].result
        /\ raised = other[1].raised
        /\ origin = other[1].origin
        /\ packets = other[1].packets

\* C19 witness: both buffers have received the same calls, the last of which
\* returned a two-packet frame, and a packet beyond the closing one is left.
C19_Witness ==
    /\ other # None /\ other[1].step = "even"
    /\ call.op = "add"
    /\ result # None
    /\ Len(result[1].packets) = 2
    /\ Cardinality(Occupied(packets)) = 2

\* C20: origin and sequence numbers are compared as plain integers, so after
\* any sequence of add calls origin stays within [0, 65535], no returned
\* frame contains a packet with sequence number 65535 immediately followed by
\* a packet with sequence number 0, and a packet with sequence number 0
\* arriving while origin >= MAX_MISORDER flushes the buffered pre-wrap packets
\* instead of extending their frame.
C20_NoWrapAround ==
    /\ origin # None => (origin[1] >= 0 /\ origin[1] <= SeqLimit - 1)
    /\ (AddDone /\ result # None) =>
          \A i \in 1..(Len(result[1].packets) - 1) :
              /\ result[1].packets[i + 1].sequence_number
                    = result[1].packets[i].sequence_number + 1
              /\ ~(/\ result[1].packets[i].sequence_number = SeqLimit - 1
                   /\ result[1].packets[i + 1].sequence_number = 0)
    /\ (AddDone /\ pre.origin # None /\ pre.origin[1] >= MAX_MISORDER /\ SeqNo = 0) =>
          /\ result = None
          /\ origin = Some(0)
          /\ Held(packets) \subseteq {call.packet[1]}
          /\ \A i \in Occupied(packets) : i = 0

\* C20 witness: packets 65534 and 65535 of one timestamp were buffered when
\* packet 0 with the same timestamp arrived, and only packet 0 is left.
C20_Witness ==
    /\ AddDone /\ SeqNo = 0
    /\ pre.origin = Some(SeqLimit - 2)
    /\ Cardinality(Occupied(pre.packets)) = 2
    /\ \A i \in Occupied(pre.packets) :
          pre.packets[i][1].timestamp = call.packet[1].timestamp
    /\ Held(packets) = {call.packet[1]}
    /\ result = None
====
